---- MODULE Spec2Model ----
(***************************************************************************)
(* Model of sustainable_procurement/api.py: the GeoJSON point extractor    *)
(* get_coordinates_from_geojson, the distance function haversine_distance  *)
(* and the nearest-supplier search get_nearest_supplier.                   *)
(*                                                                         *)
(* Two specifications:                                                     *)
(*   Spec         one call of get_nearest_supplier, one action per step    *)
(*                of the function (one loop iteration per action);         *)
(*   SpecExtract  one call of get_coordinates_from_geojson on an input     *)
(*                drawn from a bounded family of raw strings.              *)
(***************************************************************************)
EXTENDS Integers, Sequences, FiniteSets, TLC

VARIABLES
    \* ---- get_nearest_supplier ----
    pc,                     \* position in get_nearest_supplier
    warehouse,              \* the argument
    warehouse_location_str, \* line 43 (None until the lookup has returned)
    lon1, lat1,             \* the warehouse point (line 47)
    enabled_suppliers,      \* the list fetched at line 54
    idx,                    \* position of the for loop of line 64 (1-based)
    min_distance,           \* line 61
    nearest_supplier_info,  \* line 60
    retval,                 \* the value returned to the caller
    exc,                    \* the exception that reached the caller ("" when none)
    calls,                  \* data-access calls issued: [get_value, get_all]
    fault,                  \* the collaborator call that raised ("" when none)
    error_log,              \* frappe.log_error calls: sequence of <<title, subject>>
    \* ---- get_coordinates_from_geojson called on its own ----
    xpc,                    \* "idle" | "call" | "done"
    geojson_str,            \* the argument
    extracted               \* the outcome of the call

vars == <<pc, warehouse, warehouse_location_str, lon1, lat1, enabled_suppliers, idx, min_distance,
          nearest_supplier_info, retval, exc, calls, fault, error_log,
          xpc, geojson_str, extracted>>

nearestVars == <<pc, warehouse, warehouse_location_str, lon1, lat1, enabled_suppliers, idx, min_distance,
                 nearest_supplier_info, retval, exc, calls, fault, error_log>>

extractVars == <<xpc, geojson_str, extracted>>

(***************************************************************************)
(* Bounds of the model.                                                    *)
(***************************************************************************)
\* longest supplier list the collaborator returns
MaxSuppliers == 3
\* longest "features" list of an extractor input
MaxFeatures == 2
\* deepest extra list wrapping put around a coordinates value
MaxDepth == 2

(***************************************************************************)
(* Values decoded by json.loads.  A value is a record [t, v]; t is the     *)
(* Python class of the decoded value.  "float" is a finite float (v is its *)
(* value, integral in this model), "inf" and "nan" are the floats that     *)
(* json.loads yields for 1e999 / Infinity and NaN, "bigint" is an int too  *)
(* large for float() (a JSON integer of some 400 digits).  Python's None   *)
(* (JSON null, or what dict.get returns for a missing key) is JNull.       *)
(***************************************************************************)
JNull == [t |-> "null", v |-> 0]
JBool(b) == [t |-> "bool", v |-> b]
JInt(n) == [t |-> "int", v |-> n]
JFloat(n) == [t |-> "float", v |-> n]
JInf == [t |-> "inf", v |-> 0]
JNaN == [t |-> "nan", v |-> 0]
JBigInt == [t |-> "bigint", v |-> 0]
JStr(s) == [t |-> "str", v |-> s]
JArr(s) == [t |-> "arr", v |-> s]
JObj(r) == [t |-> "obj", v |-> r]

\* Python truthiness: `not x` is ~Truthy(x)
Truthy(x) ==
    CASE x.t = "null" -> FALSE
      [] x.t = "bool" -> x.v
      [] x.t \in {"int", "float"} -> x.v # 0
      [] x.t \in {"inf", "nan", "bigint"} -> TRUE
      [] x.t = "str" -> x.v # ""
      [] x.t = "arr" -> Len(x.v) > 0
      [] x.t = "obj" -> DOMAIN x.v # {}

\* dict.get(key) on a mapping: None when the key is missing
DictGet(d, key) == IF key \in DOMAIN d.v THEN d.v[key] ELSE JNull

\* isinstance(x, list)
IsList(x) == x.t = "arr"

\* isinstance(x, (int, float)): bool is a subclass of int in Python
IsIntOrFloat(x) == x.t \in {"int", "bigint", "float", "inf", "nan", "bool"}

(***************************************************************************)
(* Raw location strings.  k = "none": None; "empty": ""; "malformed": a    *)
(* non-empty text json.loads rejects; "json": a non-empty text that        *)
(* json.loads decodes to v.                                                *)
(***************************************************************************)
RawNone == [k |-> "none", v |-> JNull]
RawEmpty == [k |-> "empty", v |-> JNull]
RawMalformed == [k |-> "malformed", v |-> JNull]
RawJson(j) == [k |-> "json", v |-> j]

(***************************************************************************)
(* Outcomes of get_coordinates_from_geojson: None, a (lon, lat) tuple, or  *)
(* an exception.                                                           *)
(***************************************************************************)
NoPoint == [k |-> "none", lon |-> JNull, lat |-> JNull, exc |-> ""]
Point(lon, lat) == [k |-> "point", lon |-> lon, lat |-> lat, exc |-> ""]
Raise(e) == [k |-> "raise", lon |-> JNull, lat |-> JNull, exc |-> e]

\* json.loads (line 13) on a non-empty string
json_loads(raw) ==
    IF raw.k = "malformed" THEN [ok |-> FALSE, v |-> JNull] ELSE [ok |-> TRUE, v |-> raw.v]

\* lines 22-23 with `if` for `while`: one level unwrapped at most
UnwrapOnce(coords) ==
    IF IsList(coords) /\ Len(coords.v) > 0 /\ IsList(coords.v[1])
    THEN coords.v[1]
    ELSE coords

\* the while loop of lines 22-23
RECURSIVE UnwrapCoords(_)
UnwrapCoords(coords) ==
    IF IsList(coords) /\ Len(coords.v) > 0 /\ IsList(coords.v[1])
    THEN UnwrapCoords(coords.v[1])
    ELSE coords

\* lines 25-28: the point of unwrapped coordinates, or nothing (fall through)
CoordsPoint(coords) ==
    IF IsList(coords) /\ Len(coords.v) >= 2
    THEN LET lon == coords.v[1]
             lat == coords.v[2]
         IN IF IsIntOrFloat(lon) /\ IsIntOrFloat(lat) THEN Point(lon, lat) ELSE NoPoint
    ELSE NoPoint

\* the body of the for loop, lines 19-28, for one feature: a point (return),
\* nothing (next feature) or an exception
FeaturePoint(feature) ==
    IF feature.t # "obj" THEN Raise("AttributeError")   \* feature.get
    ELSE LET geometry == DictGet(feature, "geometry") IN
         IF ~Truthy(geometry) THEN NoPoint
         ELSE IF geometry.t # "obj" THEN Raise("AttributeError")   \* geometry.get
         ELSE LET type == DictGet(geometry, "type") IN
              IF ~(type.t = "str" /\ type.v = "Point") THEN NoPoint
              ELSE CoordsPoint(UnwrapCoords(DictGet(geometry, "coordinates")))

\* the for loop of line 18 giving up at the first feature that yields no point
ScanFeaturesFirstOnly(features, i) ==
    IF i > Len(features) THEN NoPoint ELSE FeaturePoint(features[i])

\* the for loop of line 18 over a list, from position i; line 29 at its end
RECURSIVE ScanFeatures(_, _)
ScanFeatures(features, i) ==
    IF i > Len(features) THEN NoPoint
    ELSE LET r == FeaturePoint(features[i]) IN
         IF r.k = "none" THEN ScanFeatures(features, i + 1) ELSE r

\* lines 18-29 on a truthy data["features"]: a list is scanned; a non-empty
\* str or dict iterates over str items, and str has no .get; a true or a
\* number is not iterable
IterateFeatures(features) ==
    CASE features.t = "arr" -> ScanFeatures(features.v, 1)
      [] features.t \in {"str", "obj"} -> Raise("AttributeError")
      [] OTHER -> Raise("TypeError")

get_coordinates_from_geojson(raw) ==
    IF raw.k \in {"none", "empty"} THEN NoPoint                    \* lines 10-11
    ELSE LET decoded == json_loads(raw) IN
         IF ~decoded.ok THEN Raise("JSONDecodeError")              \* line 13
         ELSE LET data == decoded.v IN
              IF data.t # "obj" THEN Raise("AttributeError")       \* data.get, line 14
              ELSE LET features == DictGet(data, "features") IN
                   IF ~Truthy(features) THEN NoPoint               \* lines 14-15
                   ELSE IterateFeatures(features)

(***************************************************************************)
(* Floats as the distance computation sees them: a finite value (m, in     *)
(* metres for a distance, in degrees for a coordinate), +infinity or NaN.  *)
(***************************************************************************)
FFin(n) == [c |-> "fin", m |-> n]
FInfinity == [c |-> "inf", m |-> 0]
FNaN == [c |-> "nan", m |-> 0]

\* float(x) of line 97; "overflow" is OverflowError (int too large for float)
float_of(x) ==
    CASE x.t \in {"int", "float"} -> FFin(x.v)
      [] x.t = "bool" -> FFin(IF x.v THEN 1 ELSE 0)
      [] x.t = "inf" -> FInfinity
      [] x.t = "nan" -> FNaN
      [] x.t = "bigint" -> [c |-> "overflow", m |-> 0]

\* Python's a < b on floats: false whenever either side is NaN
FloatLess(a, b) ==
    /\ a.c # "nan"
    /\ b.c # "nan"
    /\ \/ a.c = "fin" /\ b.c = "inf"
       \/ a.c = "fin" /\ b.c = "fin" /\ a.m < b.m

(***************************************************************************)
(* Lines 97-105 on whole-degree coordinates -1, 0, 1: the value the        *)
(* function returns, in metres (round(1000 * km)), computed with the       *)
(* source's formula.  Row: (lon1, lat1); column: (lon2, lat2); each in the *)
(* order (-1,-1), (-1,0), (-1,1), (0,-1), ... (1,1).  Rounding to metres   *)
(* keeps every equality and every order between the 81 float results.      *)
(***************************************************************************)
HaversineTable ==
    << <<     0, 111195, 222390, 111178, 157249, 248637, 222356, 248629, 314499>>,
       <<111195,      0, 111195, 157249, 111195, 157249, 248629, 222390, 248629>>,
       <<222390, 111195,      0, 248637, 157249, 111178, 314499, 248629, 222356>>,
       <<111178, 157249, 248637,      0, 111195, 222390, 111178, 157249, 248637>>,
       <<157249, 111195, 157249, 111195,      0, 111195, 157249, 111195, 157249>>,
       <<248637, 157249, 111178, 222390, 111195,      0, 248637, 157249, 111178>>,
       <<222356, 248629, 314499, 111178, 157249, 248637,      0, 111195, 222390>>,
       <<248629, 222390, 248629, 157249, 111195, 157249, 111195,      0, 111195>>,
       <<314499, 248629, 222356, 248637, 157249, 111178, 222390, 111195,      0>> >>

HaversineMetres(a1, b1, a2, b2) ==
    HaversineTable[3 * (a1 + 1) + (b1 + 1) + 1][3 * (a2 + 1) + (b2 + 1) + 1]

DistanceOk(d) == [k |-> "ok", d |-> d, exc |-> ""]
DistanceRaise(e) == [k |-> "raise", d |-> FNaN, exc |-> e]

(***************************************************************************)
(* haversine_distance, lines 91-105.  float() of a bigint raises           *)
(* OverflowError.  math.sin and math.cos raise ValueError on an infinite   *)
(* argument and return NaN on NaN; inf - inf is NaN.  The arguments of the *)
(* four trigonometric calls of line 102 are dlat/2, lat1, lat2, dlon/2.    *)
(***************************************************************************)
haversine_distance(lo1, la1, lo2, la2) ==
    LET flon1 == float_of(lo1)
        flat1 == float_of(la1)
        flon2 == float_of(lo2)
        flat2 == float_of(la2)
        all == {flon1, flat1, flon2, flat2}
    IN IF \E f \in all : f.c = "overflow" THEN DistanceRaise("OverflowError")
       ELSE IF flat1.c = "inf" \/ flat2.c = "inf" THEN DistanceRaise("ValueError")
       ELSE IF (flon1.c = "inf") # (flon2.c = "inf") /\ flon1.c # "nan" /\ flon2.c # "nan"
            THEN DistanceRaise("ValueError")
       ELSE IF (\E f \in all : f.c = "nan") \/ (flon1.c = "inf" /\ flon2.c = "inf")
            THEN DistanceOk(FNaN)
       ELSE DistanceOk(FFin(HaversineMetres(flon1.m, flat1.m, flon2.m, flat2.m)))

(***************************************************************************)
(* get_nearest_supplier: values                                            *)
(***************************************************************************)
\* the warehouse argument: None or a string
ArgNone == [k |-> "none", s |-> ""]
ArgStr(s) == [k |-> "str", s |-> s]
ArgFalsy(w) == w.k = "none" \/ w.s = ""

\* nearest_supplier_info: None or {"name", "distance"}
NoInfo == [k |-> "none", name |-> 0, distance |-> FNaN]
Info(name, distance) == [k |-> "info", name |-> name, distance |-> distance]

\* a row of frappe.get_all; the name of a supplier is its record number
Supplier(name, loc) == [name |-> name, custom_geolocation |-> loc]

\* a feature collection with the given features
FeatureCollection(features) ==
    JObj([type |-> JStr("FeatureCollection"), features |-> JArr(features)])
\* a feature of the given geometry type and coordinates
Feature(type, coordinates) ==
    JObj([type |-> JStr("Feature"),
          geometry |-> JObj([type |-> JStr(type), coordinates |-> coordinates])])
PointDoc(coordinates) == RawJson(FeatureCollection(<<Feature("Point", coordinates)>>))
Ring == JArr(<<JArr(<<JArr(<<JInt(0), JInt(0)>>), JArr(<<JInt(1), JInt(1)>>)>>)>>)

\* custom_geolocation values a Warehouse record may hold
WarehouseLocations ==
    << RawNone, RawEmpty, RawMalformed, RawJson(JInt(0)),
       RawJson(FeatureCollection(<<Feature("Polygon", Ring)>>)),
       PointDoc(JArr(<<JInt(0), JInt(0)>>)),
       PointDoc(JArr(<<JArr(<<JFloat(1), JInt(0)>>)>>)),
       PointDoc(JArr(<<JBigInt, JInt(0)>>)) >>

\* custom_geolocation values a Supplier record may hold
SupplierLocations ==
    << RawNone, RawMalformed, RawJson(JArr(<<>>)),
       PointDoc(JArr(<<JInt(0), JInt(1)>>)),
       PointDoc(JArr(<<JArr(<<JInt(0), JInt(-1)>>)>>)),
       RawJson(FeatureCollection(<<Feature("Polygon", Ring),
                                   Feature("Point", JArr(<<JInt(1), JInt(1)>>))>>)),
       PointDoc(JArr(<<JInf, JInt(0)>>)),
       PointDoc(JArr(<<JNaN, JInt(0)>>)),
       PointDoc(JArr(<<JBool(TRUE), JBool(FALSE)>>)) >>

WarehouseArgs == << ArgNone, ArgStr(""), ArgStr("WH-001") >>

(***************************************************************************)
(* get_nearest_supplier: the steps                                         *)
(***************************************************************************)
\* what frappe.db.get_value / frappe.get_all gave: a value, or an exception
Fetched(value) == [ok |-> TRUE, value |-> value]
FetchFailed == [ok |-> FALSE, value |-> RawNone]

\* lines 43-47, the body of the try: the warehouse point, or the exception raised
WarehouseCoordsBody(fetched) ==
    IF ~fetched.ok THEN Raise("DatabaseError")                       \* line 43 raised
    ELSE LET warehouse_coords == get_coordinates_from_geojson(fetched.value) IN
         IF warehouse_coords.k = "none" THEN Raise("ValueError")     \* lines 45-46
         ELSE warehouse_coords

\* lines 42-51 without the handler: every exception of the body leaves the function
WarehouseCoordsUnguarded(fetched) == WarehouseCoordsBody(fetched)

\* lines 42-51: the try with its handler; NoPoint stands for "logged, return None"
WarehouseCoords(fetched) ==
    LET r == WarehouseCoordsBody(fetched) IN
    IF r.k = "raise" THEN NoPoint ELSE r

\* line 78 with <= for <
IsCloserOrEqual(distance, best) == FloatLess(distance, best) \/ distance = best

\* line 78 reversed
IsFarther(distance, best) == FloatLess(best, distance)

\* line 78: distance < min_distance
IsCloser(distance, best) == FloatLess(distance, best)

\* the outcome of one loop iteration: the loop's locals after it, the exception
\* that left it ("" when none) and whether log_error was called
Iterated(m, n, e, l) ==
    [min_distance |-> m, nearest_supplier_info |-> n, exc |-> e, logged |-> l]

\* lines 66-83, the body of the try for one supplier; wlon, wlat: the warehouse point
SupplierBody(supplier, wlon, wlat, m, n) ==
    LET supplier_coords == get_coordinates_from_geojson(supplier.custom_geolocation) IN
    CASE supplier_coords.k = "raise" -> Iterated(m, n, supplier_coords.exc, FALSE)
      [] supplier_coords.k = "none" -> Iterated(m, n, "", FALSE)        \* lines 69-71
      [] supplier_coords.k = "point" ->
            LET d == haversine_distance(wlon, wlat, supplier_coords.lon, supplier_coords.lat) IN
            IF d.k = "raise" THEN Iterated(m, n, d.exc, FALSE)
            ELSE IF IsCloser(d.d, m)
                 THEN Iterated(d.d, Info(supplier.name, d.d), "", FALSE)  \* lines 79-83
                 ELSE Iterated(m, n, "", FALSE)

\* lines 65-86 without the handler
SupplierIterationUnguarded(supplier, wlon, wlat, m, n) ==
    SupplierBody(supplier, wlon, wlat, m, n)

\* lines 65-86: one iteration, the handler of lines 84-86 included
SupplierIteration(supplier, wlon, wlat, m, n) ==
    LET r == SupplierBody(supplier, wlon, wlat, m, n) IN
    IF r.exc # "" THEN Iterated(m, n, "", TRUE) ELSE r

\* lines 60-88 as a function of the list: the value returned, or the exception
RECURSIVE ScanSuppliers(_, _, _, _, _, _)
ScanSuppliers(suppliers, i, wlon, wlat, m, n) ==
    IF i > Len(suppliers) THEN [exc |-> "", retval |-> n]
    ELSE LET r == SupplierIteration(suppliers[i], wlon, wlat, m, n) IN
         IF r.exc # "" THEN [exc |-> r.exc, retval |-> NoInfo]
         ELSE ScanSuppliers(suppliers, i + 1, wlon, wlat, r.min_distance, r.nearest_supplier_info)

Init ==
    /\ pc = "start"
    /\ \E w \in 1..Len(WarehouseArgs) : warehouse = WarehouseArgs[w]
    /\ warehouse_location_str = RawNone
    /\ lon1 = JNull
    /\ lat1 = JNull
    /\ enabled_suppliers = <<>>
    /\ idx = 0
    /\ min_distance = FInfinity
    /\ nearest_supplier_info = NoInfo
    /\ retval = NoInfo
    /\ exc = ""
    /\ calls = [get_value |-> 0, get_all |-> 0]
    /\ fault = ""
    /\ error_log = <<>>
    /\ xpc = "idle"
    /\ geojson_str = RawNone
    /\ extracted = NoPoint

\* lines 38-39 with the guard left out
ValidateUnguarded ==
    /\ pc = "start"
    /\ pc' = "resolve"
    /\ UNCHANGED <<warehouse, warehouse_location_str, lon1, lat1, enabled_suppliers, idx, min_distance,
                   nearest_supplier_info, retval, exc, calls, fault, error_log, extractVars>>

\* lines 38-39
Validate ==
    /\ pc = "start"
    /\ IF ArgFalsy(warehouse)
       THEN pc' = "returned" /\ retval' = NoInfo
       ELSE pc' = "resolve" /\ UNCHANGED retval
    /\ UNCHANGED <<warehouse, warehouse_location_str, lon1, lat1, enabled_suppliers, idx, min_distance,
                   nearest_supplier_info, exc, calls, fault, error_log, extractVars>>

\* lines 42-51: the warehouse lookup, the extraction of its point, the handler
ResolveWarehouse ==
    /\ pc = "resolve"
    /\ \E fails \in BOOLEAN, w \in 1..Len(WarehouseLocations) :
         LET fetched == IF fails THEN FetchFailed ELSE Fetched(WarehouseLocations[w])
             r == WarehouseCoords(fetched)
         IN /\ calls' = [calls EXCEPT !.get_value = @ + 1]
            /\ warehouse_location_str' = fetched.value
            /\ fault' = IF fails THEN "get_value" ELSE fault
            /\ CASE r.k = "point" ->
                      /\ lon1' = r.lon
                      /\ lat1' = r.lat
                      /\ pc' = "fetch"
                      /\ UNCHANGED <<retval, exc, error_log>>
                 [] r.k = "none" ->                                  \* lines 50-51
                      /\ error_log' = Append(error_log, <<"Warehouse Location Parse Error", warehouse.s>>)
                      /\ retval' = NoInfo
                      /\ pc' = "returned"
                      /\ UNCHANGED <<lon1, lat1, exc>>
                 [] r.k = "raise" ->
                      /\ exc' = r.exc
                      /\ pc' = "raised"
                      /\ UNCHANGED <<lon1, lat1, retval, error_log>>
    /\ UNCHANGED <<warehouse, enabled_suppliers, idx, min_distance,
                   nearest_supplier_info, extractVars>>

\* the lists frappe.get_all may return: up to MaxSuppliers rows
SupplierList(locs) == [i \in DOMAIN locs |-> Supplier(i, SupplierLocations[locs[i]])]

\* lines 54-61 with the fetch wrapped like the warehouse lookup
FetchSuppliersGuarded ==
    /\ pc = "fetch"
    /\ calls' = [calls EXCEPT !.get_all = @ + 1]
    /\ \E fails \in BOOLEAN, n \in 0..MaxSuppliers :
         \E locs \in [1..n -> 1..Len(SupplierLocations)] :
            IF fails
            THEN /\ fault' = "get_all"
                 /\ retval' = NoInfo
                 /\ pc' = "returned"
                 /\ UNCHANGED <<enabled_suppliers, idx, min_distance, nearest_supplier_info, exc>>
            ELSE /\ enabled_suppliers' = SupplierList(locs)
                 /\ nearest_supplier_info' = NoInfo
                 /\ min_distance' = FInfinity
                 /\ idx' = 1
                 /\ pc' = "scan"
                 /\ UNCHANGED <<fault, exc, retval>>
    /\ UNCHANGED <<warehouse, warehouse_location_str, lon1, lat1, error_log, extractVars>>

\* lines 54-61: the supplier fetch (outside any try) and the loop's initial state
FetchSuppliers ==
    /\ pc = "fetch"
    /\ calls' = [calls EXCEPT !.get_all = @ + 1]
    /\ \E fails \in BOOLEAN, n \in 0..MaxSuppliers :
         \E locs \in [1..n -> 1..Len(SupplierLocations)] :
            IF fails
            THEN /\ fault' = "get_all"
                 /\ exc' = "DatabaseError"
                 /\ pc' = "raised"
                 /\ UNCHANGED <<enabled_suppliers, idx, min_distance, nearest_supplier_info, retval>>
            ELSE /\ enabled_suppliers' = SupplierList(locs)
                 /\ nearest_supplier_info' = NoInfo
                 /\ min_distance' = FInfinity
                 /\ idx' = 1
                 /\ pc' = "scan"
                 /\ UNCHANGED <<fault, exc, retval>>
    /\ UNCHANGED <<warehouse, warehouse_location_str, lon1, lat1, error_log, extractVars>>

\* lines 64-86: one iteration of the for loop
ScanSupplier ==
    /\ pc = "scan"
    /\ idx <= Len(enabled_suppliers)
    /\ LET supplier == enabled_suppliers[idx]
           r == SupplierIteration(supplier, lon1, lat1, min_distance, nearest_supplier_info)
       IN IF r.exc # ""
          THEN /\ exc' = r.exc
               /\ pc' = "raised"
               /\ UNCHANGED <<idx, min_distance, nearest_supplier_info, error_log>>
          ELSE /\ min_distance' = r.min_distance
               /\ nearest_supplier_info' = r.nearest_supplier_info
               /\ error_log' = IF r.logged
                               THEN Append(error_log, <<"Supplier Location Parse Error", supplier.name>>)
                               ELSE error_log
               /\ idx' = idx + 1
               /\ UNCHANGED <<pc, exc>>
    /\ UNCHANGED <<warehouse, warehouse_location_str, lon1, lat1, enabled_suppliers, retval, calls, fault, extractVars>>

\* line 88
Return ==
    /\ pc = "scan"
    /\ idx > Len(enabled_suppliers)
    /\ retval' = nearest_supplier_info
    /\ pc' = "returned"
    /\ UNCHANGED <<warehouse, warehouse_location_str, lon1, lat1, enabled_suppliers, idx, min_distance,
                   nearest_supplier_info, exc, calls, fault, error_log, extractVars>>

Next == Validate \/ ResolveWarehouse \/ FetchSuppliers \/ ScanSupplier \/ Return

Spec == Init /\ [][Next]_vars

(***************************************************************************)
(* get_coordinates_from_geojson on its own: inputs and the call            *)
(***************************************************************************)
\* c wrapped in d more single-element lists
RECURSIVE Wrap(_, _)
Wrap(d, c) == IF d = 0 THEN c ELSE JArr(<<Wrap(d - 1, c)>>)

\* values of a geometry's "coordinates" before extra wrapping
CoordBases ==
    << JArr(<<JInt(0), JInt(1)>>),
       JArr(<<JFloat(1), JInt(-1), JInt(0)>>),
       JArr(<<JInt(1)>>),
       JArr(<<>>),
       JArr(<<JStr("0"), JInt(1)>>),
       JArr(<<JBool(TRUE), JBool(FALSE)>>),
       JArr(<<JInt(1), JNull>>),
       JArr(<<JNaN, JInf>>),
       JStr("0,1"),
       JArr(<<JArr(<<JInt(1), JInt(1)>>), JArr(<<JInt(0), JInt(0)>>)>>),
       JArr(<<JArr(<<>>), JInt(1), JInt(1)>>) >>

\* every base at every wrapping depth 0..MaxDepth
CoordSamples ==
    [i \in 1..(Len(CoordBases) * (MaxDepth + 1)) |->
        Wrap((i - 1) \div Len(CoordBases), CoordBases[((i - 1) % Len(CoordBases)) + 1])]

\* features that are not Point features
OtherFeatures ==
    << JInt(5),
       JObj([type |-> JStr("Feature")]),
       JObj([type |-> JStr("Feature"), geometry |-> JObj(<<>>)]),
       JObj([type |-> JStr("Feature"), geometry |-> JStr("Point")]),
       Feature("Polygon", Ring),
       JObj([geometry |-> JObj([coordinates |-> JArr(<<JInt(0), JInt(1)>>)])]) >>

FeatureSamples ==
    [i \in 1..(Len(OtherFeatures) + Len(CoordSamples)) |->
        IF i <= Len(OtherFeatures) THEN OtherFeatures[i]
        ELSE Feature("Point", CoordSamples[i - Len(OtherFeatures)])]

\* decoded documents that are not a mapping with a list of features
OddDocuments ==
    << JNull, JInt(0), JStr("x"), JArr(<<>>), JBool(TRUE),
       JObj(<<>>),
       JObj([features |-> JNull]),
       JObj([features |-> JInt(0)]),
       JObj([features |-> JObj(<<>>)]),
       JObj([features |-> JInt(5)]),
       JObj([features |-> JBool(TRUE)]),
       JObj([features |-> JStr("ab")]),
       JObj([features |-> JObj([a |-> JInt(1)])]) >>

UndecodedInputs == << RawNone, RawEmpty, RawMalformed >>

InitExtract ==
    /\ pc = "start"
    /\ warehouse = ArgNone
    /\ warehouse_location_str = RawNone
    /\ lon1 = JNull
    /\ lat1 = JNull
    /\ enabled_suppliers = <<>>
    /\ idx = 0
    /\ min_distance = FInfinity
    /\ nearest_supplier_info = NoInfo
    /\ retval = NoInfo
    /\ exc = ""
    /\ calls = [get_value |-> 0, get_all |-> 0]
    /\ fault = ""
    /\ error_log = <<>>
    /\ xpc = "call"
    /\ extracted = NoPoint
    /\ \/ \E i \in 1..Len(UndecodedInputs) : geojson_str = UndecodedInputs[i]
       \/ \E i \in 1..Len(OddDocuments) : geojson_str = RawJson(OddDocuments[i])
       \/ \E n \in 0..MaxFeatures :
            \E f \in [1..n -> 1..Len(FeatureSamples)] :
               geojson_str = RawJson(FeatureCollection([i \in 1..n |-> FeatureSamples[f[i]]]))

\* one call of get_coordinates_from_geojson, lines 5-29
Extract ==
    /\ xpc = "call"
    /\ extracted' = get_coordinates_from_geojson(geojson_str)
    /\ xpc' = "done"
    /\ UNCHANGED <<geojson_str, nearestVars>>

NextExtract == Extract

SpecExtract == InitExtract /\ [][NextExtract]_vars

(***************************************************************************)
(* Claims about get_nearest_supplier (specification Spec)                  *)
(***************************************************************************)
\* the loop has run to its end and line 88 has returned
Completed == pc = "returned" /\ calls.get_all = 1

SupplierPoint(i) == get_coordinates_from_geojson(enabled_suppliers[i].custom_geolocation)
YieldsPoint(i) == SupplierPoint(i).k = "point"
Dist(i) == haversine_distance(lon1, lat1, SupplierPoint(i).lon, SupplierPoint(i).lat)
\* supplier i yields a point and its distance to the warehouse is a number
HasDistance(i) == YieldsPoint(i) /\ Dist(i).k = "ok" /\ Dist(i).d.c = "fin"
\* a <= b on floats
FloatLessEq(a, b) == FloatLess(a, b) \/ (a.c # "nan" /\ a = b)
Suppliers == 1..Len(enabled_suppliers)

\* C1 as stated: the result is absent exactly when no supplier yields a valid
\* point; otherwise it is {name, distance} of a supplier that yields a valid
\* point, with its computed distance, which is <= the computed distance of every
\* other supplier that yields a valid point.
C1_NearestAmongValidPoints ==
    Completed =>
        /\ (retval.k = "none") <=> (\A i \in Suppliers : ~YieldsPoint(i))
        /\ retval.k = "info" =>
              \E i \in Suppliers :
                 /\ YieldsPoint(i)
                 /\ Dist(i).k = "ok"
                 /\ retval = Info(enabled_suppliers[i].name, Dist(i).d)
                 /\ \A j \in Suppliers :
                       YieldsPoint(j) => Dist(j).k = "ok" /\ FloatLessEq(retval.distance, Dist(j).d)

\* C1 amended: the same, over the suppliers that yield a valid point whose
\* distance computation completes with a number (does not raise, is not NaN).
C1_NearestAmongMeasurable ==
    Completed =>
        /\ (retval.k = "none") <=> (\A i \in Suppliers : ~HasDistance(i))
        /\ retval.k = "info" =>
              \E i \in Suppliers :
                 /\ HasDistance(i)
                 /\ retval = Info(enabled_suppliers[i].name, Dist(i).d)
                 /\ \A j \in Suppliers : HasDistance(j) => retval.distance.m <= Dist(j).d.m

\* a nearest supplier was chosen over a farther one and past one without a point
C1_Witness ==
    /\ Completed
    /\ retval.k = "info"
    /\ \E j \in Suppliers : HasDistance(j) /\ Dist(j).d.m > retval.distance.m
    /\ \E j \in Suppliers : ~YieldsPoint(j)

\* C2: first-wins on ties.  After any number of iterations the current best is
\* a supplier already scanned, every earlier scanned supplier is strictly
\* farther and every later scanned one is at least as far: a later supplier
\* replaced the best only with a strictly smaller distance.
C2_FirstWinsOnTies ==
    (pc = "scan" \/ Completed) =>
        LET best == nearest_supplier_info
            scanned == 1..(idx - 1)
        IN /\ Completed => retval = best /\ idx = Len(enabled_suppliers) + 1
           /\ best.k = "info" =>
                 /\ best.name \in scanned
                 /\ HasDistance(best.name)
                 /\ best.distance = Dist(best.name).d
                 /\ min_distance = best.distance
                 /\ \A j \in scanned :
                       HasDistance(j) =>
                          /\ j < best.name => Dist(j).d.m > best.distance.m
                          /\ j > best.name => Dist(j).d.m >= best.distance.m

\* two suppliers tie for the minimum and the earlier one was returned
C2_Witness ==
    /\ Completed
    /\ retval.k = "info"
    /\ \E j \in Suppliers :
          j > retval.name /\ HasDistance(j) /\ Dist(j).d = retval.distance

\* the list without its k-th row
Without(s, k) == [i \in 1..(Len(s) - 1) |-> IF i < k THEN s[i] ELSE s[i + 1]]
\* supplier k's extraction raises or yields no point
Skippable(k) == SupplierPoint(k).k \in {"raise", "none"}

\* C3: a supplier whose extraction raises or yields no point never aborts the
\* scan: once the list is fetched the call does not raise, and the value
\* returned equals the value returned for the list with that supplier removed,
\* whatever its position.
C3_BadSupplierSkipped ==
    (calls.get_all = 1 /\ fault # "get_all") =>
        /\ pc # "raised"
        /\ pc = "returned" =>
              \A k \in Suppliers :
                 Skippable(k) =>
                    LET r == ScanSuppliers(Without(enabled_suppliers, k), 1, lon1, lat1,
                                           FInfinity, NoInfo)
                    IN r.exc = "" /\ r.retval = retval

\* a malformed supplier in the middle of three, the winner after it
C3_Witness ==
    /\ Completed
    /\ Len(enabled_suppliers) = 3
    /\ SupplierPoint(2).k = "raise"
    /\ HasDistance(1)
    /\ retval.k = "info"
    /\ retval.name = 3

\* the warehouse lookup returned and the extraction of its point raised or
\* yielded nothing
WarehouseUnusable ==
    /\ calls.get_value = 1
    /\ fault # "get_value"
    /\ get_coordinates_from_geojson(warehouse_location_str).k \in {"raise", "none"}

\* C4: if extracting the warehouse's point raises or yields absent, the call
\* returns absent and no exception reaches the caller; the supplier list is
\* never looked at.
C4_WarehouseFailSoft ==
    WarehouseUnusable =>
        /\ pc = "returned"
        /\ retval = NoInfo
        /\ exc = ""
        /\ calls.get_all = 0

\* the warehouse location was malformed and the call returned absent
C4_Witness ==
    /\ WarehouseUnusable
    /\ warehouse_location_str.k = "malformed"
    /\ pc = "returned"
    /\ Len(error_log) = 1

\* C5: with an empty or absent warehouse id the call returns absent and issues
\* no data-access call at any point.
C5_EmptyIdNoDataAccess ==
    ArgFalsy(warehouse) =>
        /\ calls = [get_value |-> 0, get_all |-> 0]
        /\ pc \in {"start", "returned"}
        /\ pc = "returned" => retval = NoInfo
        /\ exc = ""

\* the call with the empty string has returned
C5_Witness == warehouse = ArgStr("") /\ pc = "returned" /\ retval = NoInfo

\* C6: a failure of the warehouse lookup or of the extraction of its point
\* gives absent without raising; a failure of the supplier-list fetch reaches
\* the caller as an exception and never becomes an absent result.
C6_AsymmetricFailure ==
    /\ (fault = "get_value" \/ WarehouseUnusable) => pc = "returned" /\ retval = NoInfo /\ exc = ""
    /\ fault = "get_all" => pc = "raised" /\ exc # ""

\* both failures happen in some run: here the supplier fetch has raised
C6_Witness == fault = "get_all" /\ pc = "raised" /\ calls.get_value = 1

(***************************************************************************)
(* Claims about get_coordinates_from_geojson (specification SpecExtract)   *)
(***************************************************************************)
\* the input decodes to a mapping whose "features" is a list
HasFeatureList ==
    /\ geojson_str.k = "json"
    /\ geojson_str.v.t = "obj"
    /\ DictGet(geojson_str.v, "features").t = "arr"
InputFeatures == DictGet(geojson_str.v, "features").v

NoGeometry(f) == f.t = "obj" /\ ~Truthy(DictGet(f, "geometry"))
HasGeometry(f) == f.t = "obj" /\ Truthy(DictGet(f, "geometry")) /\ DictGet(f, "geometry").t = "obj"
GeometryType(f) == DictGet(DictGet(f, "geometry"), "type")
IsPointFeature(f) == HasGeometry(f) /\ GeometryType(f).t = "str" /\ GeometryType(f).v = "Point"
OtherType(f) == HasGeometry(f) /\ ~IsPointFeature(f)
Coordinates(f) == DictGet(DictGet(f, "geometry"), "coordinates")
\* the point of a Point feature's coordinates, when they are valid
PointOf(f) == CoordsPoint(UnwrapCoords(Coordinates(f)))
Qualifies(f) == IsPointFeature(f) /\ PointOf(f).k = "point"
SkippedFeature(f) == NoGeometry(f) \/ OtherType(f) \/ (IsPointFeature(f) /\ PointOf(f).k = "none")

\* C7: the features are scanned in order and the point of the first Point
\* feature with valid coordinates is returned: earlier features with no
\* geometry, another type or invalid Point coordinates are skipped, later
\* features do not matter, and the result is absent when no feature
\* qualifies or when "features" is missing or empty.
C7_FirstQualifyingFeature ==
    xpc = "done" =>
        /\ HasFeatureList =>
              LET fs == InputFeatures IN
              /\ \A k \in 1..Len(fs) :
                    (Qualifies(fs[k]) /\ \A j \in 1..(k - 1) : SkippedFeature(fs[j]))
                       => extracted = PointOf(fs[k])
              /\ (\A j \in 1..Len(fs) : SkippedFeature(fs[j])) => extracted = NoPoint
        /\ (geojson_str.k = "json" /\ geojson_str.v.t = "obj"
              /\ "features" \notin DOMAIN geojson_str.v.v) => extracted = NoPoint

\* an invalid Point feature came first, the second feature gave the point
C7_Witness ==
    /\ xpc = "done"
    /\ HasFeatureList
    /\ Len(InputFeatures) >= 2
    /\ IsPointFeature(InputFeatures[1])
    /\ SkippedFeature(InputFeatures[1])
    /\ Qualifies(InputFeatures[2])
    /\ extracted = PointOf(InputFeatures[2])

\* C8 as stated: the call raises only when a non-empty raw string fails to
\* decode; every string that decodes gives a point or absent.
C8_RaisesOnlyOnDecodeFailure ==
    xpc = "done" => (extracted.k = "raise" => geojson_str.k = "malformed")

\* the loop condition of line 22
CanUnwrap(c) == IsList(c) /\ Len(c.v) > 0 /\ IsList(c.v[1])
\* c after taking its first element k times (as far as it has one)
RECURSIVE FirstElementTimes(_, _)
FirstElementTimes(c, k) ==
    IF k = 0 \/ ~(IsList(c) /\ Len(c.v) > 0) THEN c ELSE FirstElementTimes(c.v[1], k - 1)
\* [lon, lat] pairs of numbers
LonLatSamples ==
    << JArr(<<JInt(0), JInt(1)>>), JArr(<<JNaN, JInf>>) >>

\* C9: for the coordinates c of every Point feature of the input, unwrapping
\* ends after finitely many first-element steps at the first value that is
\* not a non-empty list headed by a list; a non-list or empty c is left as it
\* is; and [lon, lat] wrapped at any depth gives the point (lon, lat).
C9_UnwrapAnyDepth ==
    (xpc = "done" /\ HasFeatureList) =>
        \A j \in 1..Len(InputFeatures) :
           IsPointFeature(InputFeatures[j]) =>
              LET c == Coordinates(InputFeatures[j])
                  u == UnwrapCoords(c)
              IN /\ \E k \in 0..(MaxDepth + 2) :
                       /\ u = FirstElementTimes(c, k)
                       /\ ~CanUnwrap(u)
                       /\ \A i \in 0..(k - 1) : CanUnwrap(FirstElementTimes(c, i))
                 /\ (~IsList(c) \/ Len(c.v) = 0) => u = c
                 /\ \A d \in 0..MaxDepth : \A b \in 1..Len(LonLatSamples) :
                       c = Wrap(d, LonLatSamples[b]) =>
                          /\ PointOf(InputFeatures[j]) =
                                Point(LonLatSamples[b].v[1], LonLatSamples[b].v[2])
                          /\ j = 1 => extracted = Point(LonLatSamples[b].v[1], LonLatSamples[b].v[2])

\* [0, 1] under MaxDepth extra lists gave the point (0, 1)
C9_Witness ==
    /\ xpc = "done"
    /\ HasFeatureList
    /\ Len(InputFeatures) >= 1
    /\ IsPointFeature(InputFeatures[1])
    /\ Coordinates(InputFeatures[1]) = Wrap(MaxDepth, JArr(<<JInt(0), JInt(1)>>))
    /\ extracted = Point(JInt(0), JInt(1))

\* a JSON number: an integer or a floating point value, not a boolean
IsNumber(x) == x.t \in {"int", "bigint", "float", "inf", "nan"}
\* unwrapped coordinates of length >= 2 whose first two elements are numbers
NumericPair(u) == IsList(u) /\ Len(u.v) >= 2 /\ IsNumber(u.v[1]) /\ IsNumber(u.v[2])

\* C10 as stated: every point returned is (element[0], element[1]) of unwrapped
\* coordinates of length >= 2 whose first two elements are numbers; a Point
\* feature whose unwrapped coordinates are shorter or hold a non-number among
\* the first two gives no point, and the scan goes on to the next feature.
C10_OnlyNumericPoints ==
    (xpc = "done" /\ HasFeatureList) =>
        /\ extracted.k = "point" => IsNumber(extracted.lon) /\ IsNumber(extracted.lat)
        /\ \A j \in 1..Len(InputFeatures) :
              (IsPointFeature(InputFeatures[j])
                 /\ ~NumericPair(UnwrapCoords(Coordinates(InputFeatures[j])))
                 /\ \A i \in 1..(j - 1) : SkippedFeature(InputFeatures[i]))
              => /\ j = Len(InputFeatures) => extracted = NoPoint
                 /\ (j < Len(InputFeatures) /\ Qualifies(InputFeatures[j + 1]))
                       => extracted = PointOf(InputFeatures[j + 1])

====
